---- MODULE Spec2Model ----
(***************************************************************************)
(* Authentication flow of the Redux / Redux-Saga exercise: the auth        *)
(* reducer, the three takeLatest watchers of authSagas and the worker      *)
(* sagas that call the login / register capabilities.                      *)
(***************************************************************************)
EXTENDS Integers, Sequences, FiniteSets, TLC

VARIABLES
    store,       \* state.auth of the Redux store
    tasks,       \* every worker task forked by a takeLatest watcher, in fork order
    lastTask,    \* per watcher: the lastTask variable of its takeLatest loop (0 = none)
    lastAction,  \* the action the reducer applied last and the task that put it (history)
    uiCount      \* number of actions dispatched by the components so far

vars == <<store, tasks, lastTask, lastAction, uiCount>>

----------------------------------------------------------------------------
\* Bounds of the model.
\* Actions the components dispatch in one run.
MaxUi == 3
\* Actions applied in one run of the reducer-only specification.
MaxReducerSteps == 3
\* Actions the components dispatch in one run of the specification with fairness.
MaxFairUi == 2

----------------------------------------------------------------------------
\* Values.
Null == [isNull |-> TRUE]      \* JavaScript null
Undefined == [isUndefined |-> TRUE]   \* the value read from an absent object key

Emails == {"a@b.com", "c@d.com"}
PasswordOf(email) == IF email = "a@b.com" THEN "x" ELSE "y"
Tokens == {"t1", "t2"}
\* What a rejected axios.post is caught as: /login rejects with the first,
\* /register with the second.
LoginError == [message |-> "cannot find user"]
RegisterError == [message |-> "duplicate email"]
Errors == {LoginError, RegisterError}

\* What the Login form dispatches with logInStart.
LoginCredentials == {[email |-> e, password |-> PasswordOf(e)] : e \in Emails}
\* What the Register form dispatches with registerStart.
RegisterCredentials ==
    {[email |-> e, password |-> PasswordOf(e), firstName |-> "A", lastName |-> "B"] :
        e \in Emails}
\* Bodies the /login endpoint may answer with: a fresh access token and the
\* stored user of the e-mail address that logged in.
LoginResponsesFor(email) == {[accessToken |-> t, user |-> [email |-> email]] : t \in Tokens}
LoginResponses == UNION {LoginResponsesFor(e) : e \in Emails}

\* authActionTypes.js
LOG_IN_START == "LOG_IN_START"
LOG_IN_SUCCESS == "LOG_IN_SUCCESS"
LOG_IN_FAILURE == "LOG_IN_FAILURE"
REGISTER_START == "REGISTER_START"
REGISTER_SUCCESS == "REGISTER_SUCCESS"
REGISTER_FAILURE == "REGISTER_FAILURE"
LOG_OUT == "LOG_OUT"
\* A tag outside authActionTypes (the reducer's default branch).
UNKNOWN == "@@UNKNOWN"

\* authActions.js
logInStart(credentials) == [type |-> LOG_IN_START, payload |-> credentials]
logInSuccess(user) == [type |-> LOG_IN_SUCCESS, payload |-> user]
logInFailure(error) == [type |-> LOG_IN_FAILURE, payload |-> error]
registerStart(credentials) == [type |-> REGISTER_START, payload |-> credentials]
registerSuccess(user) == [type |-> REGISTER_SUCCESS, payload |-> user]
registerFailure(error) == [type |-> REGISTER_FAILURE, payload |-> error]
logOut == [type |-> LOG_OUT]
\* No action (nothing dispatched yet, nothing put by a task).
NoAction == [type |-> "@@NONE"]
\* The promise of a capability call that has not settled.
NoResult == [pending |-> TRUE]

----------------------------------------------------------------------------
\* authReducer.js

\* INITIAL_STATE has no registerSuccess key.
INITIAL_STATE == [currentUser |-> Null, error |-> Null]

\* { ...state, key: value }
Spread(state, key, value) ==
    [k \in DOMAIN state \cup {key} |-> IF k = key THEN value ELSE state[k]]

\* authReducer with LOG_OUT clearing only currentUser.
authReducerLogOutKeeps(state, action) ==
    CASE action.type = LOG_IN_SUCCESS ->
            Spread(Spread(state, "currentUser", action.payload), "error", Null)
      [] action.type \in {LOG_IN_FAILURE, REGISTER_FAILURE} ->
            Spread(state, "error", action.payload)
      [] action.type = LOG_OUT -> Spread(state, "currentUser", Null)
      [] action.type = REGISTER_SUCCESS -> Spread(state, "registerSuccess", TRUE)
      [] OTHER -> state

\* authReducer with LOG_IN_SUCCESS leaving error as it was.
authReducerKeepsError(state, action) ==
    CASE action.type = LOG_IN_SUCCESS -> Spread(state, "currentUser", action.payload)
      [] action.type \in {LOG_IN_FAILURE, REGISTER_FAILURE} ->
            Spread(state, "error", action.payload)
      [] action.type = LOG_OUT -> INITIAL_STATE
      [] action.type = REGISTER_SUCCESS -> Spread(state, "registerSuccess", TRUE)
      [] OTHER -> state

\* authReducer with a failure also dropping the current user.
authReducerFailureDropsUser(state, action) ==
    CASE action.type = LOG_IN_SUCCESS ->
            Spread(Spread(state, "currentUser", action.payload), "error", Null)
      [] action.type \in {LOG_IN_FAILURE, REGISTER_FAILURE} ->
            Spread(Spread(state, "currentUser", Null), "error", action.payload)
      [] action.type = LOG_OUT -> INITIAL_STATE
      [] action.type = REGISTER_SUCCESS -> Spread(state, "registerSuccess", TRUE)
      [] OTHER -> state

\* authReducer with LOG_IN_FAILURE falling through to the default branch.
authReducerIgnoresLogInFailure(state, action) ==
    CASE action.type = LOG_IN_SUCCESS ->
            Spread(Spread(state, "currentUser", action.payload), "error", Null)
      [] action.type = REGISTER_FAILURE -> Spread(state, "error", action.payload)
      [] action.type = LOG_OUT -> INITIAL_STATE
      [] action.type = REGISTER_SUCCESS -> Spread(state, "registerSuccess", TRUE)
      [] OTHER -> state

\* authReducer with REGISTER_SUCCESS also clearing error.
authReducerRegisterClearsError(state, action) ==
    CASE action.type = LOG_IN_SUCCESS ->
            Spread(Spread(state, "currentUser", action.payload), "error", Null)
      [] action.type \in {LOG_IN_FAILURE, REGISTER_FAILURE} ->
            Spread(state, "error", action.payload)
      [] action.type = LOG_OUT -> INITIAL_STATE
      [] action.type = REGISTER_SUCCESS ->
            Spread(Spread(state, "registerSuccess", TRUE), "error", Null)
      [] OTHER -> state

authReducer(state, action) ==
    CASE action.type = LOG_IN_SUCCESS ->
            Spread(Spread(state, "currentUser", action.payload), "error", Null)
      [] action.type \in {LOG_IN_FAILURE, REGISTER_FAILURE} ->
            Spread(state, "error", action.payload)
      [] action.type = LOG_OUT -> INITIAL_STATE
      [] action.type = REGISTER_SUCCESS -> Spread(state, "registerSuccess", TRUE)
      [] OTHER -> state

----------------------------------------------------------------------------
\* authSagas.js

\* logIn: the user object built from the /login response.
logIn(response) == [token |-> response.accessToken, email |-> response.user.email]
Users == {logIn(r) : r \in LoginResponses}

Watchers == {"onLogInStart", "onRegisterStart", "onRegisterSuccess"}

\* The capability call a worker makes when it is forked with the action.
\* logInWithCredentials destructures { payload: { email, password } };
\* logInAfterRegister passes only email and password on to it.
logInWithCredentials(action) ==
    [capability |-> "logIn",
     args |-> [email |-> action.payload.email, password |-> action.payload.password]]

registerWithCredentials(action) ==
    [capability |-> "register",
     args |-> [email |-> action.payload.email, password |-> action.payload.password,
               firstName |-> action.payload.firstName,
               lastName |-> action.payload.lastName]]

\* logInAfterRegister destructuring the wrong keys of the payload.
logInAfterRegisterWrongKeys(action) ==
    logInWithCredentials([payload |-> [email |-> action.payload.firstName,
                                        password |-> action.payload.lastName]])

logInAfterRegister(action) ==
    logInWithCredentials([payload |-> [email |-> action.payload.email,
                                        password |-> action.payload.password]])

WorkerOf(watcher, action) ==
    CASE watcher = "onLogInStart" -> logInWithCredentials(action)
      [] watcher = "onRegisterStart" -> registerWithCredentials(action)
      [] watcher = "onRegisterSuccess" -> logInAfterRegister(action)

\* The pattern each watcher takes.
onLogInStart == LOG_IN_START
onRegisterStart == REGISTER_START
onRegisterSuccess == REGISTER_SUCCESS

PatternOf(watcher) ==
    CASE watcher = "onLogInStart" -> onLogInStart
      [] watcher = "onRegisterStart" -> onRegisterStart
      [] watcher = "onRegisterSuccess" -> onRegisterSuccess

\* cancel(task): a task still waiting for its promise is cancelled (its generator
\* is returned from, so neither its put nor its catch block runs); cancelling a
\* task that has ended does nothing.
Cancel(ts, id) ==
    IF id # 0 /\ ~ts[id].settled THEN [ts EXCEPT ![id].cancelled = TRUE] ELSE ts

\* takeEvery in place of takeLatest: fork the worker, cancel nothing.
takeEvery(ts, lt, watcher, action) ==
    LET task == [watcher |-> watcher, call |-> WorkerOf(watcher, action),
                 cancelled |-> FALSE, settled |-> FALSE,
                 result |-> NoResult, put |-> NoAction]
    IN [tasks |-> Append(ts, task),
        lastTask |-> [lt EXCEPT ![watcher] = Len(ts) + 1]]

\* Cancel applied to the last task of every watcher in turn.
RECURSIVE CancelAll(_, _, _)
CancelAll(ts, lt, ws) ==
    IF ws = {} THEN ts
    ELSE LET w == CHOOSE x \in ws : TRUE
         IN CancelAll(Cancel(ts, lt[w]), lt, ws \ {w})

\* takeLatest with one lastTask shared by the watchers: a round cancels the
\* pending task of every watcher.
takeLatestShared(ts, lt, watcher, action) ==
    LET kept == CancelAll(ts, lt, DOMAIN lt)
        task == [watcher |-> watcher, call |-> WorkerOf(watcher, action),
                 cancelled |-> FALSE, settled |-> FALSE,
                 result |-> NoResult, put |-> NoAction]
    IN [tasks |-> Append(kept, task),
        lastTask |-> [lt EXCEPT ![watcher] = Len(kept) + 1]]

\* One round of a takeLatest loop: cancel the watcher's last task, fork the worker.
takeLatest(ts, lt, watcher, action) ==
    LET kept == Cancel(ts, lt[watcher])
        task == [watcher |-> watcher, call |-> WorkerOf(watcher, action),
                 cancelled |-> FALSE, settled |-> FALSE,
                 result |-> NoResult, put |-> NoAction]
    IN [tasks |-> Append(kept, task),
        lastTask |-> [lt EXCEPT ![watcher] = Len(kept) + 1]]

\* authSagas with a watcher that cancels the pending tasks on LOG_OUT.
authSagasLogOutCancels(ts, lt, action) ==
    IF action.type = LOG_OUT
    THEN [tasks |-> CancelAll(ts, lt, DOMAIN lt), lastTask |-> lt]
    ELSE IF \E w \in Watchers : PatternOf(w) = action.type
    THEN takeLatest(ts, lt, CHOOSE w \in Watchers : PatternOf(w) = action.type, action)
    ELSE [tasks |-> ts, lastTask |-> lt]

\* authSagas with a retry: a LOG_IN_FAILURE makes the login watcher run its
\* last login again.
authSagasRetry(ts, lt, action) ==
    IF action.type = LOG_IN_FAILURE /\ lt["onLogInStart"] # 0
    THEN takeLatest(ts, lt, "onLogInStart", logInStart(ts[lt["onLogInStart"]].call.args))
    ELSE IF \E w \in Watchers : PatternOf(w) = action.type
    THEN takeLatest(ts, lt, CHOOSE w \in Watchers : PatternOf(w) = action.type, action)
    ELSE [tasks |-> ts, lastTask |-> lt]

\* authSagas: all three watchers listen on the same channel; at most one takes a
\* given action because their patterns differ.
authSagas(ts, lt, action) ==
    IF \E w \in Watchers : PatternOf(w) = action.type
    THEN takeLatest(ts, lt, CHOOSE w \in Watchers : PatternOf(w) = action.type, action)
    ELSE [tasks |-> ts, lastTask |-> lt]

\* store.dispatch through the saga middleware: the reducer first, then the
\* saga channel.  by is the task that put the action, 0 for a component.
Dispatch(action, by, ts) ==
    /\ store' = authReducer(store, action)
    /\ lastAction' = [action |-> action, by |-> by]
    /\ LET r == authSagas(ts, lastTask, action)
       IN /\ tasks' = r.tasks
          /\ lastTask' = r.lastTask

\* The workers without their catch blocks: a rejection puts nothing.
TerminalActionNoCatch(task, outcome) ==
    IF ~outcome.ok THEN NoAction
    ELSE IF task.call.capability = "logIn" THEN logInSuccess(logIn(outcome.value))
    ELSE registerSuccess(task.call.args)

\* registerWithCredentials with the catch block of logInWithCredentials.
TerminalActionCopiedCatch(task, outcome) ==
    IF ~outcome.ok THEN logInFailure(outcome.value)
    ELSE IF task.call.capability = "logIn" THEN logInSuccess(logIn(outcome.value))
    ELSE registerSuccess(task.call.args)

\* The terminal action a worker puts once its promise has settled.
\* outcome: [ok |-> TRUE, value |-> response] or [ok |-> FALSE, value |-> error].
TerminalAction(task, outcome) ==
    IF task.call.capability = "logIn"
    THEN IF outcome.ok THEN logInSuccess(logIn(outcome.value))
                       ELSE logInFailure(outcome.value)
    ELSE IF outcome.ok THEN registerSuccess(task.call.args)
                       ELSE registerFailure(outcome.value)

\* Outcomes the capability of a task may have.
Outcomes(task) ==
    IF task.call.capability = "logIn"
    THEN {[ok |-> FALSE, value |-> LoginError]} \cup
         {[ok |-> TRUE, value |-> r] : r \in LoginResponsesFor(task.call.args.email)}
    ELSE {[ok |-> FALSE, value |-> RegisterError], [ok |-> TRUE, value |-> Undefined]}

----------------------------------------------------------------------------
\* Components (Login.js, Register.js, Home.js)

\* Login: handleSubmit
LoginSubmit(max) ==
    /\ uiCount < max
    /\ \E c \in LoginCredentials : Dispatch(logInStart(c), 0, tasks)
    /\ uiCount' = uiCount + 1

\* Register: handleSubmit
RegisterSubmit(max) ==
    /\ uiCount < max
    /\ \E c \in RegisterCredentials : Dispatch(registerStart(c), 0, tasks)
    /\ uiCount' = uiCount + 1

\* HomePage: handleLogout
handleLogout(max) ==
    /\ uiCount < max
    /\ Dispatch(logOut, 0, tasks)
    /\ uiCount' = uiCount + 1

\* The promise of task i settles.  A cancelled task ignores it; a running task
\* resumes and puts its terminal action.
Settle(i) ==
    /\ i \in 1..Len(tasks)
    /\ ~tasks[i].settled
    /\ \E outcome \in Outcomes(tasks[i]) :
          LET ts == [tasks EXCEPT ![i].settled = TRUE, ![i].result = outcome]
              action == TerminalAction(tasks[i], outcome)
          IN IF tasks[i].cancelled
             THEN /\ tasks' = ts
                  /\ UNCHANGED <<store, lastTask, lastAction>>
             ELSE Dispatch(action, i, [ts EXCEPT ![i].put = action])
    /\ UNCHANGED uiCount

MaxTasks == 2 * MaxUi

SettleAny == \E i \in 1..MaxTasks : Settle(i)

Init ==
    /\ store = INITIAL_STATE
    /\ tasks = <<>>
    /\ lastTask = [w \in Watchers |-> 0]
    /\ lastAction = [action |-> NoAction, by |-> 0]
    /\ uiCount = 0

Next ==
    \/ LoginSubmit(MaxUi)
    \/ RegisterSubmit(MaxUi)
    \/ handleLogout(MaxUi)
    \/ SettleAny

Spec == Init /\ [][Next]_vars

FairNext ==
    \/ LoginSubmit(MaxFairUi)
    \/ RegisterSubmit(MaxFairUi)
    \/ handleLogout(MaxFairUi)
    \/ SettleAny

\* The capability calls are assumed to complete: every promise settles.
FairSpec == Init /\ [][FairNext]_vars /\ \A i \in 1..MaxTasks : WF_vars(Settle(i))
----------------------------------------------------------------------------
\* The reducer on its own: any state, any sequence of actions.

AuthStates ==
    LET base == {[currentUser |-> u, error |-> e] :
                    u \in {Null} \cup Users, e \in {Null} \cup Errors}
    IN base \cup {Spread(b, "registerSuccess", TRUE) : b \in base}

Actions ==
    {logInStart(c) : c \in LoginCredentials} \cup
    {logInSuccess(u) : u \in Users} \cup
    {logInFailure(e) : e \in Errors} \cup
    {registerStart(c) : c \in RegisterCredentials} \cup
    {registerSuccess(c) : c \in RegisterCredentials} \cup
    {registerFailure(e) : e \in Errors} \cup
    {logOut, [type |-> UNKNOWN]}

ReducerInit ==
    /\ store \in AuthStates
    /\ tasks = <<>>
    /\ lastTask = [w \in Watchers |-> 0]
    /\ lastAction = [action |-> NoAction, by |-> 0]
    /\ uiCount = 0

ReducerStep ==
    /\ uiCount < MaxReducerSteps
    /\ \E a \in Actions :
          /\ store' = authReducer(store, a)
          /\ lastAction' = [action |-> a, by |-> 0]
    /\ uiCount' = uiCount + 1
    /\ UNCHANGED <<tasks, lastTask>>

ReducerNext == ReducerStep

ReducerSpec == ReducerInit /\ [][ReducerNext]_vars

----------------------------------------------------------------------------
\* Properties.

\* The step applies an action to the reducer: a component dispatched it or a
\* task put it.
Dispatched ==
    \/ uiCount' # uiCount
    \/ \E i \in 1..Len(tasks) : tasks[i].put = NoAction /\ tasks'[i].put # NoAction

\* state.registerSuccess is true
RegisterSucceeded(state) ==
    "registerSuccess" \in DOMAIN state /\ state.registerSuccess = TRUE

TypeOK ==
    /\ store \in AuthStates
    /\ lastAction.action \in Actions \cup {NoAction}
    /\ uiCount \in 0..MaxUi
    /\ Len(tasks) <= MaxTasks

\* C4: whatever was dispatched before, the state right after the reducer has
\* applied LogOut is the initial state: no current user, no error, and
\* registerSuccess not true.
C4_LogOutResets ==
    lastAction.action.type = LOG_OUT =>
        /\ store = INITIAL_STATE
        /\ store.currentUser = Null
        /\ store.error = Null
        /\ ~RegisterSucceeded(store)

\* A registration and its automatic login both succeeded, then the one LogOut
\* of the run was applied.
C4_Witness ==
    /\ lastAction.action.type = LOG_OUT
    /\ uiCount = 2
    /\ \E i \in 1..Len(tasks) : tasks[i].put.type = REGISTER_SUCCESS
    /\ \E i \in 1..Len(tasks) : tasks[i].put.type = LOG_IN_SUCCESS

\* C5 as stated: error is absent after LoginSuccess and after RegisterSuccess,
\* and is the payload after LoginFailure and after RegisterFailure.
C5_AsStated ==
    LET a == lastAction.action
    IN /\ a.type \in {LOG_IN_SUCCESS, REGISTER_SUCCESS} => store.error = Null
       /\ a.type \in {LOG_IN_FAILURE, REGISTER_FAILURE} => store.error = a.payload

\* C5 as amended: error is absent after LoginSuccess, is the payload after
\* LoginFailure and after RegisterFailure, and is left as it was by
\* RegisterSuccess.
C5_ErrorAfterTerminal ==
    [][Dispatched =>
        LET a == lastAction'.action
        IN /\ a.type = LOG_IN_SUCCESS => store'.error = Null
           /\ a.type \in {LOG_IN_FAILURE, REGISTER_FAILURE} => store'.error = a.payload
           /\ a.type = REGISTER_SUCCESS => store'.error = store.error]_vars

\* RegisterSuccess was applied to a state whose error was set, and it is still set.
C5_Witness ==
    /\ lastAction.action.type = REGISTER_SUCCESS
    /\ store.error # Null

\* C6: in every reducer step currentUser becomes a (different) user only under
\* LoginSuccess, goes from present to absent only under LogOut, and is left
\* unchanged by every other action.
C6_CurrentUserWriters ==
    [][Dispatched =>
        LET a == lastAction'.action
        IN /\ (store'.currentUser # store.currentUser /\ store'.currentUser # Null)
                 => a.type = LOG_IN_SUCCESS
           /\ (store.currentUser # Null /\ store'.currentUser = Null)
                 => a.type = LOG_OUT
           /\ a.type \notin {LOG_IN_SUCCESS, LOG_OUT}
                 => store'.currentUser = store.currentUser]_vars

\* A failure was applied to a state holding a user, and the user is still there.
C6_Witness ==
    /\ lastAction.action.type \in {LOG_IN_FAILURE, REGISTER_FAILURE}
    /\ store.currentUser \in Users

\* C7: LoginSuccess(u) then LoginFailure(e) leaves currentUser = u and error = e;
\* a further LoginFailure(e2) leaves error = e2 and changes nothing else.
C7_FailureAfterSuccess ==
    [][(Dispatched /\ lastAction'.action.type = LOG_IN_FAILURE) =>
        /\ lastAction.action.type = LOG_IN_SUCCESS =>
              /\ store'.currentUser = lastAction.action.payload
              /\ store'.error = lastAction'.action.payload
        /\ lastAction.action.type = LOG_IN_FAILURE =>
              /\ store'.error = lastAction'.action.payload
              /\ store' = Spread(store, "error", lastAction'.action.payload)
              /\ \A k \in DOMAIN store' \ {"error"} : store'[k] = store[k]]_vars

\* LoginSuccess, LoginFailure and a second, different LoginFailure were applied.
C7_Witness ==
    /\ uiCount = 3
    /\ lastAction.action.type = LOG_IN_FAILURE
    /\ store.currentUser \in Users
    /\ store.error = lastAction.action.payload
    /\ store.error = RegisterError

\* The state the transition table gives for a state and an action.
TableRow(state, action, next) ==
    CASE action.type = LOG_IN_SUCCESS ->
            /\ next.currentUser = action.payload
            /\ next.error = Null
            /\ RegisterSucceeded(next) = RegisterSucceeded(state)
      [] action.type \in {LOG_IN_FAILURE, REGISTER_FAILURE} ->
            /\ next.error = action.payload
            /\ next.currentUser = state.currentUser
            /\ RegisterSucceeded(next) = RegisterSucceeded(state)
      [] action.type = REGISTER_SUCCESS ->
            /\ RegisterSucceeded(next)
            /\ next.currentUser = state.currentUser
            /\ next.error = state.error
      [] action.type = LOG_OUT -> next = INITIAL_STATE
      [] OTHER -> next = state

\* C9: the reducer is total and every step follows the transition table.
C9_TransitionTable ==
    [][Dispatched =>
        /\ store' \in AuthStates
        /\ TableRow(store, lastAction'.action, store')]_vars

\* RegisterSuccess was applied to a state with an error and a user, which it kept.
C9_Witness ==
    /\ lastAction.action.type = REGISTER_SUCCESS
    /\ RegisterSucceeded(store)
    /\ store.error \in Errors
    /\ store.currentUser \in Users
\* The watchers of the two Start actions.
StartWatchers == {"onLogInStart", "onRegisterStart"}

\* A newer task of the same watcher exists.  For a task whose promise is still
\* pending this says that a newer Start arrived while it was pending.
Superseded(ts, i) == \E j \in (i + 1)..Len(ts) : ts[j].watcher = ts[i].watcher

\* The terminal action of the task's lane that carries the result of its call.
CarriesResult(task, action) ==
    IF task.call.capability = "logIn"
    THEN IF task.result.ok
         THEN /\ action.type = LOG_IN_SUCCESS
              /\ action.payload.token = task.result.value.accessToken
              /\ action.payload.email = task.result.value.user.email
         ELSE action.type = LOG_IN_FAILURE /\ action.payload = task.result.value
    ELSE IF task.result.ok
         THEN action.type = REGISTER_SUCCESS
         ELSE action.type = REGISTER_FAILURE /\ action.payload = task.result.value

\* C1: a call started by a Start that a newer Start of the same lane has
\* superseded never has its result dispatched, whenever and however it
\* completes; the call of the latest Start has its own result dispatched when
\* it completes, and a completed call dispatches nothing further.
C1_LatestWins ==
    [][\A i \in 1..Len(tasks) :
          tasks[i].watcher \in StartWatchers =>
             /\ (~tasks[i].settled /\ Superseded(tasks, i)) => tasks'[i].put = NoAction
             /\ (~tasks[i].settled /\ ~Superseded(tasks, i) /\ tasks'[i].settled) =>
                   /\ CarriesResult(tasks'[i], tasks'[i].put)
                   /\ lastAction' = [action |-> tasks'[i].put, by |-> i]
             /\ tasks[i].settled => tasks'[i].put = tasks[i].put]_vars

\* Two LoginStarts, the second while the first call was pending; the first call
\* then succeeded and the second failed: only LoginFailure was dispatched.
C1_Witness ==
    /\ Len(tasks) = 2
    /\ tasks[1].watcher = "onLogInStart" /\ tasks[2].watcher = "onLogInStart"
    /\ tasks[1].cancelled /\ tasks[1].settled /\ tasks[1].result.ok
    /\ tasks[1].put = NoAction
    /\ tasks[2].settled /\ tasks[2].put.type = LOG_IN_FAILURE
    /\ lastAction.by = 2

\* The call of task i, started by a Start, has not completed.
StartPending(i) ==
    /\ i <= Len(tasks)
    /\ tasks[i].watcher \in StartWatchers
    /\ ~tasks[i].settled

\* Task i completed and put the terminal action of its result.
StartTerminated(i) ==
    /\ i <= Len(tasks)
    /\ tasks[i].settled
    /\ CarriesResult(tasks[i], tasks[i].put)

\* C2: if every capability call completes, each call started by a Start is
\* followed by a newer Start of its lane or by the terminal action of its
\* result: Success if it returned, Failure with the error if it raised.
C2_StartReachesTerminal ==
    \A i \in 1..MaxTasks :
        StartPending(i) ~> ((i <= Len(tasks) /\ Superseded(tasks, i)) \/ StartTerminated(i))

\* A register call that was never superseded raised and RegisterFailure was put.
C2_Witness ==
    \E i \in 1..Len(tasks) :
        /\ tasks[i].watcher = "onRegisterStart"
        /\ ~Superseded(tasks, i)
        /\ tasks[i].settled /\ ~tasks[i].result.ok
        /\ tasks[i].put = registerFailure(tasks[i].result.value)

\* C3: the step that dispatches RegisterSuccess starts exactly one call of the
\* login capability, with the email and password of its payload; when that
\* call returns user u before a newer RegisterSuccess, LoginSuccess(u) is
\* dispatched and currentUser becomes u.
C3_AutoLogin ==
    [][\A i \in 1..Len(tasks) :
          /\ (tasks[i].put = NoAction /\ tasks'[i].put.type = REGISTER_SUCCESS) =>
                /\ Len(tasks') = Len(tasks) + 1
                /\ LET new == tasks'[Len(tasks')]
                   IN /\ new.call.capability = "logIn"
                      /\ new.call.args.email = tasks'[i].put.payload.email
                      /\ new.call.args.password = tasks'[i].put.payload.password
                      /\ ~new.settled /\ ~new.cancelled
          /\ (/\ tasks[i].watcher = "onRegisterSuccess"
              /\ ~tasks[i].settled /\ ~Superseded(tasks, i)
              /\ tasks'[i].settled /\ tasks'[i].result.ok) =>
                LET u == [token |-> tasks'[i].result.value.accessToken,
                          email |-> tasks'[i].result.value.user.email]
                IN /\ lastAction' = [action |-> logInSuccess(u), by |-> i]
                   /\ store'.currentUser = u]_vars

\* A registration succeeded and its automatic login logged the user in.
C3_Witness ==
    \E i \in 1..Len(tasks) :
        /\ tasks[i].watcher = "onRegisterSuccess"
        /\ tasks[i].put.type = LOG_IN_SUCCESS
        /\ lastAction = [action |-> tasks[i].put, by |-> i]
        /\ store.currentUser = tasks[i].put.payload
        /\ \E j \in 1..(i - 1) :
              /\ tasks[j].put.type = REGISTER_SUCCESS
              /\ tasks[j].put.payload.email = tasks[i].call.args.email

\* The run so far: one RegisterStart from the initial state, its call raised,
\* and no component dispatched anything else.
RegisterFailedAlone ==
    /\ uiCount = 1
    /\ Len(tasks) >= 1
    /\ tasks[1].watcher = "onRegisterStart"
    /\ tasks[1].settled /\ ~tasks[1].result.ok

\* C8: after a lone RegisterStart whose call raised e, RegisterFailure(e) was
\* dispatched, RegisterSuccess was not, the login capability was not invoked,
\* and the state has error = e, registerSuccess not true and no current user.
C8_FailedRegistration ==
    RegisterFailedAlone =>
        /\ tasks[1].put = registerFailure(tasks[1].result.value)
        /\ lastAction = [action |-> registerFailure(tasks[1].result.value), by |-> 1]
        /\ \A i \in 1..Len(tasks) :
              tasks[i].put.type # REGISTER_SUCCESS /\ tasks[i].call.capability # "logIn"
        /\ store.error = tasks[1].result.value
        /\ ~RegisterSucceeded(store)
        /\ store.currentUser = Null

C8_Witness == RegisterFailedAlone /\ store.error = RegisterError

\* C10 as stated: a login call, whether started by LoginStart or by
\* RegisterSuccess, never has its result dispatched once any newer login call
\* has started while it was pending.
C10_AsStated ==
    [][\A i \in 1..Len(tasks) :
          (/\ tasks[i].call.capability = "logIn"
           /\ ~tasks[i].settled
           /\ \E j \in (i + 1)..Len(tasks) : tasks[j].call.capability = "logIn")
          => tasks'[i].put = NoAction]_vars
\* The terminal actions of the lane a Start watcher belongs to.
LaneTerminals(watcher) ==
    IF watcher = "onLogInStart" THEN {LOG_IN_SUCCESS, LOG_IN_FAILURE}
                                ELSE {REGISTER_SUCCESS, REGISTER_FAILURE}

\* A Start of the other lane was dispatched after task i was forked.
OtherLaneStarted(ts, i) ==
    \E j \in (i + 1)..Len(ts) : ts[j].watcher \in StartWatchers \ {ts[i].watcher}

\* C11: the Start of one lane leaves a pending call of the other lane as it is
\* (not cancelled), and a pending call that is the latest of its own lane still
\* has the terminal action of its own lane and result dispatched when it
\* completes, however the other lane's Starts interleave with it.
C11_LanesIndependent ==
    [][\A i \in 1..Len(tasks) :
          (tasks[i].watcher \in StartWatchers /\ ~tasks[i].settled) =>
             /\ (/\ uiCount' # uiCount
                 /\ lastAction'.action.type \in {LOG_IN_START, REGISTER_START}
                 /\ lastAction'.action.type # PatternOf(tasks[i].watcher))
                => tasks'[i] = tasks[i]
             /\ (/\ OtherLaneStarted(tasks, i)
                 /\ ~Superseded(tasks, i)
                 /\ tasks'[i].settled)
                => /\ tasks'[i].put.type \in LaneTerminals(tasks[i].watcher)
                   /\ CarriesResult(tasks'[i], tasks'[i].put)
                   /\ lastAction' = [action |-> tasks'[i].put, by |-> i]]_vars

\* LoginStart, then RegisterStart while the login call was pending; the register
\* call raised first and the login call then completed: both terminal actions
\* were dispatched, each by its own lane.
C11_Witness ==
    /\ uiCount = 2
    /\ Len(tasks) = 2
    /\ tasks[1].watcher = "onLogInStart" /\ tasks[2].watcher = "onRegisterStart"
    /\ tasks[2].put.type = REGISTER_FAILURE
    /\ tasks[1].put.type \in {LOG_IN_SUCCESS, LOG_IN_FAILURE}
    /\ lastAction = [action |-> tasks[1].put, by |-> 1]
\* The actions that start a capability call, and the capability each starts.
Triggers == {LOG_IN_START, REGISTER_START, REGISTER_SUCCESS}
CapabilityOf(type) == IF type = REGISTER_START THEN "register" ELSE "logIn"

\* C12: a step invokes a capability exactly once when it dispatches LoginStart,
\* RegisterStart or RegisterSuccess (login, register, login) and never
\* otherwise: not when a Failure is dispatched, not when a call completes, and
\* a call once made is not made again.
C12_NoRetry ==
    [][LET a == lastAction'.action
           trigger == Dispatched /\ a.type \in Triggers
       IN /\ Len(tasks') = Len(tasks) + (IF trigger THEN 1 ELSE 0)
          /\ \A i \in 1..Len(tasks) : tasks'[i].call = tasks[i].call
          /\ trigger => tasks'[Len(tasks')].call.capability = CapabilityOf(a.type)]_vars

\* One LoginStart, its call raised, LoginFailure was dispatched and no further
\* call was made.
C12_Witness ==
    /\ uiCount = 1
    /\ Len(tasks) = 1
    /\ tasks[1].watcher = "onLogInStart"
    /\ tasks[1].settled
    /\ lastAction = [action |-> logInFailure(LoginError), by |-> 1]
    /\ store.error = LoginError
\* C13: the step that applies LogOut leaves every task as it is, so no pending
\* call is cancelled; and when LogOut was the last action applied, a pending
\* login call that is the latest of its watcher still has its result dispatched
\* when it completes: LoginSuccess sets currentUser, LoginFailure sets error,
\* with no Start or RegisterSuccess dispatched since the LogOut.
C13_LogOutCancelsNothing ==
    [][/\ (uiCount' # uiCount /\ lastAction'.action.type = LOG_OUT) =>
             tasks' = tasks /\ lastTask' = lastTask
       /\ \A i \in 1..Len(tasks) :
             (/\ lastAction.action.type = LOG_OUT
              /\ tasks[i].call.capability = "logIn"
              /\ ~tasks[i].settled /\ ~Superseded(tasks, i)
              /\ tasks'[i].settled)
             => /\ CarriesResult(tasks'[i], tasks'[i].put)
                /\ lastAction' = [action |-> tasks'[i].put, by |-> i]
                /\ tasks'[i].result.ok =>
                      store'.currentUser = tasks'[i].put.payload /\ store'.currentUser # Null
                /\ ~tasks'[i].result.ok =>
                      store'.error = tasks'[i].result.value /\ store'.error # Null]_vars

\* RegisterStart and LogOut were the only actions the components dispatched.
\* registerSuccess is gone although RegisterSuccess was dispatched, so LogOut
\* came after it, while the automatic login was pending; the user is logged in,
\* so its LoginSuccess came after the LogOut.
C13_Witness ==
    /\ uiCount = 2
    /\ Len(tasks) = 2
    /\ tasks[1].watcher = "onRegisterStart" /\ tasks[1].put.type = REGISTER_SUCCESS
    /\ tasks[2].watcher = "onRegisterSuccess" /\ tasks[2].put.type = LOG_IN_SUCCESS
    /\ lastAction = [action |-> tasks[2].put, by |-> 2]
    /\ ~RegisterSucceeded(store)
    /\ store.currentUser = tasks[2].put.payload
    /\ store.currentUser \in Users
====
